---- MODULE Spec2Model ----
(***************************************************************************)
(* A model of fluent-javascript.js: the object-creation idioms of the      *)
(* script, over a small JavaScript object heap.                            *)
(*                                                                         *)
(* Every JavaScript value is a string: a primitive string, "true",         *)
(* "false", "undefined", the reference of a heap object ("#3"), or the     *)
(* identity of a function, named by the place that defines it              *)
(* ("availability.open").  An error raised by an operation is recorded as  *)
(* the operation's result ("TypeError", "ReferenceError", "Error").        *)
(* Property names are taken from names that Object.prototype does not      *)
(* define, so a lookup that runs off the end of a chain yields undefined.  *)
(***************************************************************************)
EXTENDS Integers, Sequences, FiniteSets, TLC

VARIABLES
    heap,        \* reference -> [proto, env, own]: the objects allocated so far
    globals,     \* the properties of the global object (implicit globals)
    bars,        \* the instances each block has created, in creation order
    lastCall,    \* history: instance -> the last of open/close called on it
    created,     \* history: instance -> the argument it was created with
    ret,         \* the last operation and its result
    locals,      \* the variables of the constructor block, and its position
    retSwitch,   \* the last call of the switch-based doAction
    retCommand   \* the last call of the command-object doAction

vars == <<heap, globals, bars, lastCall, created, ret, locals, retSwitch,
          retCommand>>

---------------------------------------------------------------------------
(* Bounds of the model *)

MaxPrivBars == 3
MaxMixinBars == 2
MaxOptBars == 2
MaxCreated == 2
RandSteps == 8

---------------------------------------------------------------------------
(* Values and objects *)

UNDEFINED == "undefined"
NULL == "null"
JSTrue == "true"
JSFalse == "false"
TypeError == "TypeError"
ReferenceError == "ReferenceError"

EmptyTable == <<>>

Ref(n) == "#" \o ToString(n)

\* The reference the next allocation gets.
Fresh(h) == Ref(Cardinality(DOMAIN h) + 1)

\* An object: its delegation parent, the scope its methods close over, and
\* its own properties.
NewObject(proto, env, own) == [proto |-> proto, env |-> env, own |-> own]

Alloc(h, obj) == (Fresh(h) :> obj) @@ h

HasOwn(h, x, k) == k \in DOMAIN h[x].own

\* x[k]: the own property, else the delegation parent's.
RECURSIVE Get(_, _, _)
Get(h, x, k) ==
    IF x = NULL THEN UNDEFINED
    ELSE IF HasOwn(h, x, k) THEN h[x].own[k]
    ELSE Get(h, h[x].proto, k)

\* x[k] = v: always an own property of x.
Put(h, x, k, v) == [h EXCEPT ![x].own = (k :> v) @@ @]

\* A variant of Object.create that copies the properties instead of linking.
ObjectCreateCopy(h, o) == NewObject(NULL, NULL, h[o].own)

\* Object.create(o): function F() {}; F.prototype = o; return new F() -- a new
\* object without own properties whose delegation parent is o.
ObjectCreate(h, o) == NewObject(o, NULL, EmptyTable)

NoRet == [block |-> "none", op |-> "none", this |-> NULL, arg |-> UNDEFINED,
          val |-> UNDEFINED]

Result(block, op, this, arg, val) ==
    [block |-> block, op |-> op, this |-> this, arg |-> arg, val |-> val]

NoCall == [arg |-> UNDEFINED, rnd |-> 0, val |-> "none"]

StartLocals == [pc |-> "start", myBar |-> UNDEFINED, brokenBar |-> UNDEFINED,
                test |-> "none"]

NoBars == [priv |-> <<>>, mixin |-> <<>>, opt |-> <<>>, create |-> <<>>]

Range(s) == {s[i] : i \in DOMAIN s}

---------------------------------------------------------------------------
(* "Private properties": privileged methods over a closure variable *)

\* createBar(): a scope holding var isOpen = false, and the returned literal
\* whose three methods close over that scope.
PrivScope == NewObject(NULL, NULL, [isOpen |-> JSFalse])

\* A variant in which every instance closes over the first scope created.
PrivLiteralSharedScope(scope) ==
    NewObject(NULL, Ref(1),
              [open |-> "priv.open", close |-> "priv.close",
               isOpen |-> "priv.isOpen"])

PrivLiteral(scope) ==
    NewObject(NULL, scope,
              [open |-> "priv.open", close |-> "priv.close",
               isOpen |-> "priv.isOpen"])

\* open: isOpen = true; return this
PrivOpenBody(h, this) == Put(h, h[this].env, "isOpen", JSTrue)

\* A variant of close that leaves the flag set.
PrivCloseBodyStuck(h, this) == Put(h, h[this].env, "isOpen", JSTrue)

\* close: isOpen = false; return this
PrivCloseBody(h, this) == Put(h, h[this].env, "isOpen", JSFalse)

\* isOpen: return isOpen
PrivIsOpenBody(h, this) == h[h[this].env].own["isOpen"]

PrivCreateBar ==
    /\ Len(bars.priv) < MaxPrivBars
    /\ LET scope == Fresh(heap)
           h1 == Alloc(heap, PrivScope)
           bar == Fresh(h1)
       IN /\ heap' = Alloc(h1, PrivLiteral(scope))
          /\ bars' = [bars EXCEPT !.priv = Append(@, bar)]
          /\ lastCall' = (bar :> "none") @@ lastCall
          /\ ret' = Result("priv", "createBar", NULL, UNDEFINED, bar)
    /\ UNCHANGED <<globals, created, locals, retSwitch, retCommand>>

PrivOpen(b) ==
    /\ Get(heap, b, "open") = "priv.open"
    /\ heap' = PrivOpenBody(heap, b)
    /\ lastCall' = [lastCall EXCEPT ![b] = "open"]
    /\ ret' = Result("priv", "open", b, UNDEFINED, b)
    /\ UNCHANGED <<globals, bars, created, locals, retSwitch, retCommand>>

PrivClose(b) ==
    /\ Get(heap, b, "close") = "priv.close"
    /\ heap' = PrivCloseBody(heap, b)
    /\ lastCall' = [lastCall EXCEPT ![b] = "close"]
    /\ ret' = Result("priv", "close", b, UNDEFINED, b)
    /\ UNCHANGED <<globals, bars, created, locals, retSwitch, retCommand>>

PrivIsOpen(b) ==
    /\ Get(heap, b, "isOpen") = "priv.isOpen"
    /\ ret' = Result("priv", "isOpen", b, UNDEFINED, PrivIsOpenBody(heap, b))
    /\ UNCHANGED <<heap, globals, bars, lastCall, created, locals, retSwitch,
                   retCommand>>

InitEmpty ==
    /\ heap = EmptyTable
    /\ globals = EmptyTable
    /\ bars = NoBars
    /\ lastCall = EmptyTable
    /\ created = EmptyTable
    /\ ret = NoRet
    /\ locals = StartLocals
    /\ retSwitch = NoCall
    /\ retCommand = NoCall

NextPriv ==
    \/ PrivCreateBar
    \/ \E b \in Range(bars.priv) : PrivOpen(b)
    \/ \E b \in Range(bars.priv) : PrivClose(b)
    \/ \E b \in Range(bars.priv) : PrivIsOpen(b)

SpecPriv == InitEmpty /\ [][NextPriv]_vars

\* C1: an instance of the privileged-method createBar() answers isOpen() with
\* false before any call and afterwards with true exactly when the last of
\* its open()/close() calls was open(); open() and close() return the
\* instance itself.
C1_IsOpenFollowsLastCall ==
    /\ \A b \in Range(bars.priv) :
          PrivIsOpenBody(heap, b) = (IF lastCall[b] = "open" THEN JSTrue ELSE JSFalse)
    /\ (ret.block = "priv" /\ ret.op = "isOpen") =>
          ret.val = (IF lastCall[ret.this] = "open" THEN JSTrue ELSE JSFalse)
    /\ (ret.block = "priv" /\ ret.op \in {"open", "close"}) => ret.val = ret.this

\* isOpen() has answered false on an instance whose last call was close()
\* while another instance stays open.
C1_Witness ==
    /\ ret.block = "priv" /\ ret.op = "isOpen" /\ ret.val = JSFalse
    /\ lastCall[ret.this] = "close"
    /\ \E a \in Range(bars.priv) : lastCall[a] = "open"

\* C2: a call on one instance of the privileged-method createBar() (or the
\* creation of another instance) never changes what isOpen() answers on a
\* different instance.
C2_FlagsIndependent ==
    [][\A b \in Range(bars.priv) :
         ret'.this # b => PrivIsOpenBody(heap', b) = PrivIsOpenBody(heap, b)]_vars

\* Two instances whose flags differ, the last call being made on the open one.
C2_Witness ==
    \E a, b \in Range(bars.priv) :
        /\ a # b /\ ret.block = "priv" /\ ret.op = "open" /\ ret.this = a
        /\ PrivIsOpenBody(heap, a) = JSTrue
        /\ PrivIsOpenBody(heap, b) = JSFalse
        /\ lastCall[b] = "close"

---------------------------------------------------------------------------
(* extend, and the two mixin sources *)

\* One source merged into a table: every key of the source, the source's
\* value replacing the table's.
ExtendTable(table, src) == src @@ table

\* extend(target, source1, ..., sourceN): the sources' keys are combined into
\* the target, in order; the target is the result.
RECURSIVE Extend(_, _, _)
Extend(h, target, srcs) ==
    IF srcs = <<>> THEN h
    ELSE Extend([h EXCEPT ![target].own = ExtendTable(@, Head(srcs))],
                target, Tail(srcs))

membership == NewObject(NULL, NULL,
                        [add |-> "membership.add",
                         getMember |-> "membership.getMember"])

availability == NewObject(NULL, NULL,
                          [open |-> "availability.open",
                           close |-> "availability.close",
                           isOpen |-> "availability.isOpen"])

Outcome(h, g, val) == [heap |-> h, globals |-> g, val |-> val]

\* add: this.members[member.name] = member; return this
MembershipAdd(h, g, this, member) ==
    LET ms == Get(h, this, "members")
    IN IF ms = UNDEFINED THEN Outcome(h, g, TypeError)
       ELSE Outcome(Put(h, ms, Get(h, member, "name"), member), g, this)

\* getMember: return this.members[name]
MembershipGetMember(h, g, this, name) ==
    LET ms == Get(h, this, "members")
    IN IF ms = UNDEFINED THEN Outcome(h, g, TypeError)
       ELSE Outcome(h, g, Get(h, ms, name))

\* open: isOpen = true (an undeclared name, in non-strict code: a property of
\* the global object); return this
AvailabilityOpen(h, g, this) == Outcome(h, ("isOpen" :> JSTrue) @@ g, this)

\* close: isOpen = false; return this
AvailabilityClose(h, g, this) == Outcome(h, ("isOpen" :> JSFalse) @@ g, this)

\* isOpen: return isOpen (a ReferenceError while nothing has assigned it)
AvailabilityIsOpen(h, g, this) ==
    IF "isOpen" \in DOMAIN g THEN Outcome(h, g, g["isOpen"])
    ELSE Outcome(h, g, ReferenceError)

\* x.m(arg): the function found under m on x or its delegation chain, applied
\* with this = x.
Call(h, g, x, m, arg) ==
    LET f == Get(h, x, m)
    IN CASE f = "membership.add" -> MembershipAdd(h, g, x, arg)
         [] f = "membership.getMember" -> MembershipGetMember(h, g, x, arg)
         [] f = "availability.open" -> AvailabilityOpen(h, g, x)
         [] f = "availability.close" -> AvailabilityClose(h, g, x)
         [] f = "availability.isOpen" -> AvailabilityIsOpen(h, g, x)
         [] OTHER -> Outcome(h, g, TypeError)

\* The objects the script's top level and its callers provide: the two mixin
\* sources, the barPrototype of each of the two mixin blocks, and the member
\* literals that callers pass to add.
MembershipRef == Ref(1)
AvailabilityRef == Ref(2)
MixinProtoRef == Ref(3)
OptProtoRef == Ref(4)

MemberNames == {"johnny", "mary"}
MemberLiterals == <<[name |-> "johnny", joined |-> "monday"],
                    [name |-> "johnny", joined |-> "tuesday"],
                    [name |-> "mary", joined |-> "monday"]>>
MemberRefs == {Ref(4 + i) : i \in DOMAIN MemberLiterals}

RECURSIVE AllocAll(_, _)
AllocAll(h, objs) ==
    IF objs = <<>> THEN h ELSE AllocAll(Alloc(h, Head(objs)), Tail(objs))

\* var barPrototype = extend({}, membership, availability)
BarPrototype(h) ==
    Extend(Alloc(h, NewObject(NULL, NULL, EmptyTable)), Fresh(h),
           <<h[MembershipRef].own, h[AvailabilityRef].own>>)

LoadedHeap ==
    AllocAll(BarPrototype(BarPrototype(AllocAll(EmptyTable,
                                                <<membership, availability>>))),
             [i \in DOMAIN MemberLiterals |->
                 NewObject(NULL, NULL, MemberLiterals[i])])

Methods == {"open", "close", "isOpen", "add", "getMember"}

Args(m) == IF m = "add" THEN MemberRefs
           ELSE IF m = "getMember" THEN MemberNames
           ELSE {UNDEFINED}

\* One method call on an instance of a mixin block.
Invoke(block, b, m, arg) ==
    LET out == Call(heap, globals, b, m, arg)
    IN /\ heap' = out.heap
       /\ globals' = out.globals
       /\ ret' = Result(block, m, b, arg, out.val)
       /\ UNCHANGED <<bars, lastCall, created, locals, retSwitch, retCommand>>

---------------------------------------------------------------------------
(* "Multiple inheritance": the mixin block *)

\* A variant that keeps the members table on the delegation parent.
MixinInstanceSharedMembers(h) ==
    LET ms == IF HasOwn(h, MixinProtoRef, "members")
              THEN h[MixinProtoRef].own["members"] ELSE Fresh(h)
        h1 == IF HasOwn(h, MixinProtoRef, "members") THEN h
              ELSE Put(Alloc(h, NewObject(NULL, NULL, EmptyTable)),
                       MixinProtoRef, "members", ms)
    IN Alloc(h1, ObjectCreate(h1, MixinProtoRef))

\* var instance = Object.create(barPrototype); instance.members = {}
MixinInstance(h) ==
    LET instance == Fresh(h)
        h1 == Alloc(h, ObjectCreate(h, MixinProtoRef))
        ms == Fresh(h1)
    IN Put(Alloc(h1, NewObject(NULL, NULL, EmptyTable)), instance, "members", ms)

\* The instance is the object of the new heap that delegates to barPrototype.
NewInstance(h, hNew, proto) ==
    CHOOSE x \in DOMAIN hNew \ DOMAIN h : hNew[x].proto = proto

MixinCreateBar ==
    /\ Len(bars.mixin) < MaxMixinBars
    /\ LET h1 == MixinInstance(heap)
           bar == NewInstance(heap, h1, MixinProtoRef)
       IN /\ heap' = h1
          /\ bars' = [bars EXCEPT !.mixin = Append(@, bar)]
          /\ ret' = Result("mixin", "createBar", NULL, UNDEFINED, bar)
    /\ UNCHANGED <<globals, lastCall, created, locals, retSwitch, retCommand>>

MixinCall ==
    \E b \in Range(bars.mixin), m \in Methods :
        \E arg \in Args(m) : Invoke("mixin", b, m, arg)

InitLoaded ==
    /\ heap = LoadedHeap
    /\ globals = EmptyTable
    /\ bars = NoBars
    /\ lastCall = EmptyTable
    /\ created = EmptyTable
    /\ ret = NoRet
    /\ locals = StartLocals
    /\ retSwitch = NoCall
    /\ retCommand = NoCall

NextMixin ==
    \/ MixinCreateBar
    \/ MixinCall

SpecMixin == InitLoaded /\ [][NextMixin]_vars

\* this.members[name], as getMember(name) on b answers it.
GetMemberVal(h, b, n) == MembershipGetMember(h, EmptyTable, b, n).val

---------------------------------------------------------------------------
(* Defaults and options: the second mixin block *)

Defaults == [name |-> "The Saloon", specials |-> "Whisky, Gin, Tequila"]

OptionKeys == DOMAIN Defaults
OptionValues == {"The Dead Goat Saloon", "Rye"}

\* The options tables a caller passes: any subset of the keys, any values.
OptionTables ==
    UNION {[ks -> OptionValues] : ks \in SUBSET OptionKeys}

\* A variant that passes the defaults to extend after the options.
OptInstanceDefaultsLast(h, options) ==
    Extend(Alloc(h, ObjectCreate(h, OptProtoRef)), Fresh(h),
           <<options, Defaults>>)

\* instance = Object.create(barPrototype);
\* return extend(instance, defaults, options)
OptInstance(h, options) ==
    Extend(Alloc(h, ObjectCreate(h, OptProtoRef)), Fresh(h),
           <<Defaults, options>>)

OptCreateBar ==
    /\ Len(bars.opt) < MaxOptBars
    /\ \E options \in OptionTables :
         LET h1 == OptInstance(heap, options)
             bar == NewInstance(heap, h1, OptProtoRef)
         IN /\ heap' = h1
            /\ bars' = [bars EXCEPT !.opt = Append(@, bar)]
            /\ created' = (bar :> options) @@ created
            /\ ret' = Result("opt", "createBar", NULL, UNDEFINED, bar)
    /\ UNCHANGED <<globals, lastCall, locals, retSwitch, retCommand>>

OptCall ==
    \E b \in Range(bars.opt), m \in Methods :
        \E arg \in Args(m) : Invoke("opt", b, m, arg)

NextOpt ==
    \/ OptCreateBar
    \/ OptCall

SpecOpt == InitLoaded /\ [][NextOpt]_vars

\* C4: an instance of createBar(options) holds, as its own property, for each
\* of name and specials the options' value when options has the key and the
\* defaults' value otherwise; barPrototype never gets either key, and the
\* instance keeps its values whatever is created later.
C4_OptionsOverrideDefaults ==
    /\ \A b \in Range(bars.opt), k \in OptionKeys :
          /\ HasOwn(heap, b, k)
          /\ heap[b].own[k] =
                (IF k \in DOMAIN created[b] THEN created[b][k] ELSE Defaults[k])
    /\ \A k \in OptionKeys : ~HasOwn(heap, OptProtoRef, k)

\* An instance created with a name only, which keeps the default specials
\* after a second instance was created with other options.
C4_Witness ==
    /\ Len(bars.opt) = 2
    /\ DOMAIN created[bars.opt[1]] = {"name"}
    /\ Get(heap, bars.opt[1], "name") = "The Dead Goat Saloon"
    /\ Get(heap, bars.opt[1], "specials") = Defaults.specials
    /\ Get(heap, bars.opt[2], "name") = "Rye"
    /\ Get(heap, bars.opt[2], "specials") = "Rye"

\* C8: on an instance of createBar(options), add(member) returns the instance
\* and getMember(name) answers without raising, as for the first mixin block.
C8_OptInstanceHoldsMembers ==
    (ret.block = "opt" /\ ret.op \in {"add", "getMember"}) => ret.val # TypeError

---------------------------------------------------------------------------
(* Object.create: prototype-linked objects *)

\* var barPrototype = { open: function open() {}, close: function close() {} }
CreateBarPrototype ==
    NewObject(NULL, NULL, [open |-> "barPrototype.open",
                           close |-> "barPrototype.close"])

CreateProtoRef == Ref(1)

Props == {"open", "band"}
Written == {"lame", "Dr. Teeth"}

\* The objects of the block: barPrototype and what was created from it.
CreateObjects == {CreateProtoRef} \cup Range(bars.create)

\* Object.create(o), for o any object of the block.
CreateFrom(o) ==
    /\ Len(bars.create) < MaxCreated
    /\ LET x == Fresh(heap)
       IN /\ heap' = Alloc(heap, ObjectCreate(heap, o))
          /\ bars' = [bars EXCEPT !.create = Append(@, x)]
          /\ created' = (x :> o) @@ created
          /\ ret' = Result("create", "create", NULL, o, x)
    /\ UNCHANGED <<globals, lastCall, locals, retSwitch, retCommand>>

\* x[k] = v, for x any object of the block.
WriteProp(x, k, v) ==
    /\ heap' = Put(heap, x, k, v)
    /\ ret' = Result("create", "write", x, k, v)
    /\ UNCHANGED <<globals, bars, lastCall, created, locals, retSwitch,
                   retCommand>>

InitCreate ==
    /\ heap = Alloc(EmptyTable, CreateBarPrototype)
    /\ globals = EmptyTable
    /\ bars = NoBars
    /\ lastCall = EmptyTable
    /\ created = EmptyTable
    /\ ret = NoRet
    /\ locals = StartLocals
    /\ retSwitch = NoCall
    /\ retCommand = NoCall

NextCreate ==
    \/ \E o \in CreateObjects : CreateFrom(o)
    \/ \E x \in CreateObjects, k \in Props, v \in Written : WriteProp(x, k, v)

SpecCreate == InitCreate /\ [][NextCreate]_vars

\* Whether z delegates, directly or through other created objects, to y.
RECURSIVE DelegatesTo(_, _)
DelegatesTo(z, y) ==
    z \in DOMAIN created /\ (created[z] = y \/ DelegatesTo(created[z], y))

\* C7: Object.create(o) returns a new object, distinct from every existing
\* one, without own properties, whose delegation parent is o; reading p on a
\* created x yields x's own p if it has one and otherwise what o currently
\* yields for p, so a write to o is seen through x; a write to an object
\* changes no other object's own properties and no reading on an object that
\* does not delegate to it.
C7_ObjectCreateDelegates ==
    [][/\ \A x \in Range(bars'.create) :
            /\ heap'[x].proto = created'[x]
            /\ \A p \in Props \cup {"close"} :
                  Get(heap', x, p) =
                     IF HasOwn(heap', x, p) THEN heap'[x].own[p]
                     ELSE Get(heap', created'[x], p)
       /\ ret'.op = "create" =>
            /\ ret'.val \notin DOMAIN heap
            /\ ret'.val \in DOMAIN heap'
            /\ heap'[ret'.val].own = EmptyTable
            /\ created'[ret'.val] = ret'.arg
            /\ \A z \in DOMAIN heap : heap'[z] = heap[z]
       /\ ret'.op = "write" =>
            /\ heap'[ret'.this].own[ret'.arg] = ret'.val
            /\ \A z \in DOMAIN heap \ {ret'.this} :
                  /\ heap'[z] = heap[z]
                  /\ \A p \in Props \cup {"close"} :
                        /\ ~DelegatesTo(z, ret'.this) =>
                              Get(heap', z, p) = Get(heap, z, p)
                        /\ (DelegatesTo(z, ret'.this) /\ p = ret'.arg
                            /\ \A y \in DOMAIN heap :
                                 (DelegatesTo(z, y) /\ DelegatesTo(y, ret'.this))
                                     => ~HasOwn(heap, y, p)) =>
                              Get(heap', z, p) =
                                 IF HasOwn(heap, z, p) THEN heap[z].own[p]
                                 ELSE ret'.val]_vars

\* Two objects created from barPrototype: one holds its own band, the other
\* reads the band written to barPrototype after both were created.
C7_Witness ==
    /\ Len(bars.create) >= 2
    /\ created[bars.create[1]] = CreateProtoRef
    /\ created[bars.create[2]] = CreateProtoRef
    /\ heap[bars.create[1]].own = [band |-> "lame"]
    /\ heap[bars.create[2]].own = EmptyTable
    /\ ret.op = "write" /\ ret.this = CreateProtoRef /\ ret.arg = "band"
    /\ Get(heap, bars.create[2], "band") = "Dr. Teeth"
    /\ Get(heap, bars.create[1], "band") = "lame"
    /\ Get(heap, bars.create[1], "open") = "barPrototype.open"

---------------------------------------------------------------------------
(* doAction: switch ... case, and the command object *)

actionlist == <<"hack", "slash", "run">>

ActionArgs == Range(actionlist) \cup {UNDEFINED}

\* Math.random() yields rnd / RandSteps, for rnd in 0 .. RandSteps - 1.
Randoms == 0 .. (RandSteps - 1)

\* A variant that scales by actionlist.length.
RandomIndexFullLength(rnd) ==
    (2 * rnd * Len(actionlist) + RandSteps) \div (2 * RandSteps)

\* Math.round(Math.random() * (actionlist.length - 1)): Math.round(x) is
\* floor(x + 1/2), here over the fraction rnd * (length - 1) / RandSteps.
RandomIndex(rnd) ==
    (2 * rnd * (Len(actionlist) - 1) + RandSteps) \div (2 * RandSteps)

\* actionlist[i], for a zero-based i.
Element(list, i) == IF i + 1 \in DOMAIN list THEN list[i + 1] ELSE UNDEFINED

\* The switch-based doAction(action): the var declaration assigns action the
\* randomly selected name, whatever was passed.
DoActionSwitch(action, rnd) ==
    LET selected == Element(actionlist, RandomIndex(rnd))
    IN CASE selected = "hack" -> "hack"
         [] selected = "slash" -> "slash"
         [] selected = "run" -> "run"
         [] OTHER -> "Error"

\* actions = { 'hack': function () { return 'hack'; }, ... }: each key with
\* what its function returns.
CommandObject == [hack |-> "hack", slash |-> "slash", run |-> "run"]

\* The command-object doAction(action).
DoActionCommand(action, rnd) ==
    LET selected == Element(actionlist, RandomIndex(rnd))
    IN IF selected \notin DOMAIN CommandObject THEN "Error"
       ELSE CommandObject[selected]

CallSwitch(action, rnd) ==
    /\ retSwitch' = [arg |-> action, rnd |-> rnd,
                     val |-> DoActionSwitch(action, rnd)]
    /\ UNCHANGED <<heap, globals, bars, lastCall, created, ret, locals,
                   retCommand>>

\* The command object is assigned to the undeclared name actions.
CallCommand(action, rnd) ==
    /\ retCommand' = [arg |-> action, rnd |-> rnd,
                      val |-> DoActionCommand(action, rnd)]
    /\ globals' = ("actions" :> "doAction.actions") @@ globals
    /\ UNCHANGED <<heap, bars, lastCall, created, ret, locals, retSwitch>>

NextDispatch ==
    \/ \E action \in ActionArgs, rnd \in Randoms : CallSwitch(action, rnd)
    \/ \E action \in ActionArgs, rnd \in Randoms : CallCommand(action, rnd)

SpecDispatch == InitEmpty /\ [][NextDispatch]_vars

\* C5: called with one of the three action names, either doAction returns
\* that name.
C5_ForcedActionReturned ==
    /\ retSwitch.arg \in Range(actionlist) => retSwitch.val = retSwitch.arg
    /\ retCommand.arg \in Range(actionlist) => retCommand.val = retCommand.arg

\* The name at zero-based index i is the one selected for rnd: i is the
\* integer nearest to rnd * (length - 1) / RandSteps, halves rounding up.
Nearest(i, rnd) ==
    /\ RandSteps * (2 * i - 1) <= 2 * rnd * (Len(actionlist) - 1)
    /\ 2 * rnd * (Len(actionlist) - 1) < RandSteps * (2 * i + 1)

\* C10: for every random draw both doAction functions return the name of
\* actionlist at the rounded index, which is 0, 1 or 2; so both return the
\* same valid name for the same draw and neither raises 'Invalid action.'.
C10_DispatchersAgree ==
    /\ \A r \in {retSwitch, retCommand} :
          r.val # "none" =>
             \E i \in 0 .. (Len(actionlist) - 1) : Nearest(i, r.rnd) /\ r.val = actionlist[i + 1]
    /\ (retSwitch.val # "none" /\ retCommand.val # "none"
        /\ retSwitch.rnd = retCommand.rnd) => retSwitch.val = retCommand.val

\* Both functions were called on the same draw, one that lies strictly between
\* two indexes and rounds to the last one.
C10_Witness ==
    /\ retSwitch.val = "run" /\ retCommand.val = "run"
    /\ retSwitch.rnd = retCommand.rnd
    /\ (retSwitch.rnd * (Len(actionlist) - 1)) % RandSteps # 0

---------------------------------------------------------------------------
(* Constructor functions: the unsafe constructor *)

GlobalThis == "global"

\* this[k], where this may be the global object, or nothing at all.
ReadProp(h, g, x, k) ==
    IF x \in {UNDEFINED, NULL} THEN TypeError
    ELSE IF x = GlobalThis THEN (IF k \in DOMAIN g THEN g[k] ELSE UNDEFINED)
    ELSE Get(h, x, k)

\* A variant of Bar that ends with return this.
BarReturnsThis(h, g, this) ==
    IF this = GlobalThis THEN Outcome(h, ("band" :> "lame") @@ g, this)
    ELSE Outcome(Put(h, this, "band", "lame"), g, this)

\* function Bar() { this.band = 'lame'; } -- no return statement.
Bar(h, g, this) ==
    IF this = GlobalThis THEN Outcome(h, ("band" :> "lame") @@ g, UNDEFINED)
    ELSE Outcome(Put(h, this, "band", "lame"), g, UNDEFINED)

\* var myBar = new Bar(): Bar applied to a new object, which is the result
\* unless Bar returns an object.
NewBar ==
    /\ locals.pc = "start"
    /\ LET this == Fresh(heap)
           out == Bar(Alloc(heap, NewObject(NULL, NULL, EmptyTable)), globals,
                      this)
       IN /\ heap' = out.heap
          /\ globals' = out.globals
          /\ locals' = [locals EXCEPT !.pc = "newed",
                           !.myBar = IF out.val = UNDEFINED THEN this
                                     ELSE out.val]
    /\ UNCHANGED <<bars, lastCall, created, ret, retSwitch, retCommand>>

\* var brokenBar = Bar(): in non-strict code this is the global object, and
\* the value of the call is what Bar returns.
CallBar ==
    /\ locals.pc = "newed"
    /\ LET out == Bar(heap, globals, GlobalThis)
       IN /\ heap' = out.heap
          /\ globals' = out.globals
          /\ locals' = [locals EXCEPT !.pc = "called", !.brokenBar = out.val]
    /\ UNCHANGED <<bars, lastCall, created, ret, retSwitch, retCommand>>

\* test('Constructor'): equal(typeof myBar, 'object'), then
\* equal(brokenBar.band, 'lame').
ConstructorTest ==
    /\ locals.pc = "called"
    /\ LET band == ReadProp(heap, globals, locals.brokenBar, "band")
       IN locals' = [locals EXCEPT !.pc = "tested",
                        !.test = IF locals.myBar \notin DOMAIN heap THEN "fail"
                                 ELSE IF band = TypeError THEN TypeError
                                 ELSE IF band = "lame" THEN "pass"
                                 ELSE "fail"]
    /\ UNCHANGED <<heap, globals, bars, lastCall, created, ret, retSwitch,
                   retCommand>>

---------------------------------------------------------------------------
(* The script as a whole: the blocks' operations, interleaved *)

\* The state once the script has run its two mixin blocks: each has made its
\* bar, the second with { name: 'The Dead Goat Saloon' }.
ScriptHeap ==
    OptInstance(MixinInstance(LoadedHeap), [name |-> "The Dead Goat Saloon"])

InitScript ==
    /\ heap = ScriptHeap
    /\ globals = EmptyTable
    /\ bars = [NoBars EXCEPT
                 !.mixin = <<NewInstance(LoadedHeap, ScriptHeap, MixinProtoRef)>>,
                 !.opt = <<NewInstance(LoadedHeap, ScriptHeap, OptProtoRef)>>]
    /\ lastCall = EmptyTable
    /\ created = EmptyTable
    /\ ret = NoRet
    /\ locals = StartLocals
    /\ retSwitch = NoCall
    /\ retCommand = NoCall

NextScript ==
    \/ NewBar
    \/ CallBar
    \/ ConstructorTest
    \/ \E b \in Range(bars.mixin), m \in DOMAIN availability.own :
          Invoke("mixin", b, m, UNDEFINED)
    \/ \E b \in Range(bars.opt), m \in DOMAIN availability.own :
          Invoke("opt", b, m, UNDEFINED)
    \/ \E rnd \in Randoms : CallSwitch(UNDEFINED, rnd)
    \/ \E rnd \in Randoms : CallCommand(UNDEFINED, rnd)

SpecScript == InitScript /\ [][NextScript]_vars

C9_NoStateAcrossBlocks ==
    [][/\ \A b \in Range(bars.opt) :
            ret'.block # "opt" =>
               AvailabilityIsOpen(heap', globals', b).val
                  = AvailabilityIsOpen(heap, globals, b).val
       /\ \A b \in Range(bars.mixin) :
            ret'.block # "mixin" =>
               AvailabilityIsOpen(heap', globals', b).val
                  = AvailabilityIsOpen(heap, globals, b).val]_vars

====
